---- MODULE Spec2Model ----
(***************************************************************************)
(* The voice listening state machine of useSpeechRecognition (HomeworkHacker). *)
(* Strings are sequences of one-character strings, so that toLowerCase,    *)
(* indexOf, substring, trim and concatenation are computed as the code     *)
(* computes them.                                                          *)
(***************************************************************************)
EXTENDS Integers, Sequences, FiniteSets, TLC

\* ------------------------------------------------------------------ bounds
\* Longest accumulated reply text (in characters) that still accepts a final
\* hypothesis; keeps the accumulator finite.
MaxAccLen == 1

\* Most startListening() calls that may be awaiting the microphone permission.
MaxPending == 1

\* Most startListening() calls awaiting the permission at once in the
\* specification of overlapping calls (SpecOverlap).
MaxOverlap == 2

\* Requests a useHomeworkHacker run may start.
MaxRequests == 2

\* Most non-empty chunks of one response stream.
MaxChunks == 2

\* ------------------------------------------------------- string primitives
Whitespace == {" "}

\* String.prototype.toLowerCase on one UTF-16 unit (en-US recognition output)
LowerOf(c) ==
  CASE c = "H" -> "h"
    [] c = "E" -> "e"
    [] c = "Y" -> "y"
    [] c = "B" -> "b"
    [] c = "A" -> "a"
    [] OTHER -> c

toLowerCaseAsIs(s) == s

toLowerCase(s) == [i \in 1..Len(s) |-> LowerOf(s[i])]

\* String.prototype.indexOf: 0-based offset of the first occurrence, or -1
indexOf(s, w) ==
  LET hits == {i \in 0..(Len(s) - Len(w)) : SubSeq(s, i + 1, i + Len(w)) = w}
  IN IF hits = {} THEN -1 ELSE CHOOSE i \in hits : \A j \in hits : i <= j

includes(s, w) == indexOf(s, w) # -1

\* String.prototype.substring(start): start is clamped to the length
substring(s, start) ==
  IF start >= Len(s) THEN <<>> ELSE SubSeq(s, start + 1, Len(s))

\* String.prototype.trim
trim(s) ==
  LET keep == {i \in 1..Len(s) : s[i] \notin Whitespace}
  IN IF keep = {} THEN <<>>
     ELSE LET lo == CHOOSE i \in keep : \A j \in keep : i <= j
              hi == CHOOSE i \in keep : \A j \in keep : i >= j
          IN SubSeq(s, lo, hi)

\* ------------------------------------------------------------ constants
wakeWord == <<"h", "e", "y", " ", "b", "u", "d", "d", "y">>

ListeningState ==
  {"idle", "listening_for_wakeword", "listening_for_command", "listening_for_reply"}

\* ------------------------------------------------- hypotheses of the service
TxtSpace == <<" ">>
TxtA == <<"a">>
TxtSpA == <<" ", "a">>
TxtWakeSp == <<"H", "e", "y", " ", "B", "u", "d", "d", "y", " ">>
TxtWakeCmd == <<"x", " ", "H", "E", "Y", " ", "b", "u", "d", "d", "y", " ", "A", " ">>

\* concatenated final transcripts a result batch may carry (<<>>: none)
FinalTexts == {<<>>, TxtSpace, TxtA, TxtSpA, TxtWakeSp, TxtWakeCmd}

\* concatenated interim transcripts a result batch may carry (<<>>: none)
InterimTexts == {<<>>, TxtA, TxtWakeSp}

\* ------------------------------------------------------------------ state
VARIABLES
  listeningState,               \* React state: the value of the last setListeningState
  listeningStateRef,            \* listeningStateRef.current, read by every handler
  isSupported,                  \* React state isSupported
  recognitionRef,               \* "null" or "instance"
  mounted,                      \* the hook is mounted (its effect cleanup has not run)
  isAISpeakingRef,              \* isAISpeakingRef.current
  lastFinalTranscript,          \* lastFinalTranscript.current
  isIntentionallyStopped,       \* isIntentionallyStopped.current
  replyWindowSpeechDetectedRef, \* replyWindowSpeechDetectedRef.current
  replyWindowTranscriptRef,     \* replyWindowTranscriptRef.current
  commandTimeoutRef,            \* "null" | "command" (pending)
  replyWindowTimeoutRef,        \* "null" | "window" | "nospeech" (pending) | "fired"
  replyWindowSilenceTimeoutRef, \* "null" | "settle" (pending)
  pendingTimers,                \* the browser's timers: how many of each kind are pending
  service,                      \* recognition service: "inactive" | "active" | "stopping"
  permPending,                  \* startListening() calls awaiting getUserMedia
  calls,                        \* callbacks invoked by the last step, in order
  svcCalls,                     \* start()/stop() requests issued by the last step
  ev                            \* the last step: the operation and its input

hookVars ==
  <<listeningState, listeningStateRef, isSupported, recognitionRef, mounted,
    isAISpeakingRef, lastFinalTranscript, isIntentionallyStopped,
    replyWindowSpeechDetectedRef, replyWindowTranscriptRef, commandTimeoutRef,
    replyWindowTimeoutRef, replyWindowSilenceTimeoutRef, pendingTimers>>

vars == <<hookVars, service, permPending, calls, svcCalls, ev>>

envVars == <<isSupported, recognitionRef, mounted>>
timerVars ==
  <<commandTimeoutRef, replyWindowTimeoutRef, replyWindowSilenceTimeoutRef,
    pendingTimers>>
replyVars == <<replyWindowSpeechDetectedRef, replyWindowTranscriptRef>>

\* the service instance exists and still has its on* handlers
HandlersAttached == mounted /\ recognitionRef = "instance"

\* --------------------------------------------------------------- callbacks
CbWake == <<"onWakeWordDetected", <<>>>>
CbCommandStart == <<"onCommandStart", <<>>>>
CbResult(text) == <<"onResult", text>>

\* was: the listeningState the step started from
Step(op, interim, final) ==
  [op |-> op, was |-> listeningState, interim |-> interim, final |-> final]

\* -------------------------------------------------- the recognition service
\* SpeechRecognition.start(): throws InvalidStateError (caught by every caller)
\* unless the service has ended
SvcStart(s) == IF s = "inactive" THEN "active" ELSE s

\* SpeechRecognition.stop(): the service ends later, with an end event
SvcStop(s) == IF s = "active" THEN "stopping" ELSE s

\* ------------------------------------------------------------------ timers
\* the callbacks handed to setTimeout: the command timeout, the reply-window
\* timeout, the no-new-speech timeout and the settle timeout
TimerKinds == {"command", "window", "nospeech", "settle"}

\* clearTimeout(ref.current): a handle of a pending timer removes it; null and
\* the handle of a timer that has fired remove nothing
clearTimeout(p, ref) ==
  IF ref \in TimerKinds /\ p[ref] > 0 THEN [p EXCEPT ![ref] = @ - 1] ELSE p

\* setTimeout(callback, ms): one more pending timer of that kind
setTimeout(p, kind) == [p EXCEPT ![kind] = @ + 1]

\* a pending timer fires: it leaves the timer table and its callback runs
Fired(p, kind) == [p EXCEPT ![kind] = @ - 1]

\* ------------------------------------------------------ useHomeworkHacker
VARIABLES
  aiRef,               \* aiRef.current: "null" | "client"
  isLoading,           \* React state isLoading
  abortControllerRef,  \* 0: null; r: the AbortController request r created
  aborted,             \* the controllers whose signal is aborted
  reqState,            \* per request: "unused" | "connecting" | "streaming" | "finished"
  reqKind,             \* per request: "sendMessage" | "sendAIPrompt" | "none"
  assistantContent,    \* per request: its local assistantContent (chunks appended)
  messages,            \* per request: content of its assistant message, -1: no such message
  userMessages,        \* number of user messages in the list
  cancelledInFlight,   \* history: requests that were in flight at a cancelRequest()
  hhEv                 \* the last step of this hook: operation and request

hhVars ==
  <<aiRef, isLoading, abortControllerRef, aborted, reqState, reqKind,
    assistantContent, messages, userMessages, cancelledInFlight, hhEv>>

Requests == 1..MaxRequests

\* useHomeworkHacker before any call: useState / useRef initial values
InitHomeworkHacker ==
  /\ aiRef \in {"null", "client"}
  /\ isLoading = FALSE
  /\ abortControllerRef = 0
  /\ aborted = {}
  /\ reqState = [r \in Requests |-> "unused"]
  /\ reqKind = [r \in Requests |-> "none"]
  /\ assistantContent = [r \in Requests |-> 0]
  /\ messages = [r \in Requests |-> -1]
  /\ userMessages = 0
  /\ cancelledInFlight = {}
  /\ hhEv = [op |-> "mount", req |-> 0]

\* ------------------------------------------------------------------- Init
\* useSpeechRecognition after its mount effect
InitSpeechRecognition ==
  /\ recognitionRef \in {"null", "instance"}
  /\ isSupported = (recognitionRef = "instance")
  /\ mounted = TRUE
  /\ listeningState = "idle"
  /\ listeningStateRef = "idle"
  /\ isAISpeakingRef \in BOOLEAN
  /\ lastFinalTranscript = <<>>
  /\ isIntentionallyStopped = FALSE
  /\ replyWindowSpeechDetectedRef = FALSE
  /\ replyWindowTranscriptRef = <<>>
  /\ commandTimeoutRef = "null"
  /\ replyWindowTimeoutRef = "null"
  /\ replyWindowSilenceTimeoutRef = "null"
  /\ pendingTimers = [k \in TimerKinds |-> 0]
  /\ service = "inactive"
  /\ permPending = 0
  /\ calls = <<>>
  /\ svcCalls = <<>>
  /\ ev = Step("mount", <<>>, <<>>)

\* both hooks mounted; the speech specification runs with the AI client
\* configured and never calls the other hook
Init ==
  /\ InitSpeechRecognition
  /\ InitHomeworkHacker
  /\ aiRef = "client"

\* ---------------------------------------------------------- React effects
\* useEffect(() => { listeningStateRef.current = listeningState }, [listeningState])
\* runs after the render that a setListeningState scheduled has been committed
ListeningStateEffect ==
  /\ mounted
  /\ listeningStateRef # listeningState
  /\ listeningStateRef' = listeningState
  /\ calls' = <<>>
  /\ svcCalls' = <<>>
  /\ ev' = Step("stateEffect", <<>>, <<>>)
  /\ UNCHANGED hhVars
  /\ UNCHANGED <<listeningState, envVars, isAISpeakingRef, lastFinalTranscript,
                 isIntentionallyStopped, replyVars, timerVars, service, permPending>>

\* useEffect(() => { isAISpeakingRef.current = options.isAISpeaking || false })
IsAISpeakingEffect ==
  /\ mounted
  /\ isAISpeakingRef' = ~isAISpeakingRef
  /\ calls' = <<>>
  /\ svcCalls' = <<>>
  /\ ev' = Step("speakingEffect", <<>>, <<>>)
  /\ UNCHANGED hhVars
  /\ UNCHANGED <<listeningState, listeningStateRef, envVars, lastFinalTranscript,
                 isIntentionallyStopped, replyVars, timerVars, service, permPending>>

\* ------------------------------------------------------- public operations
\* startListening(), up to its await of getUserMedia
StartListeningProceedsInAnyState == recognitionRef # "null"

\* startListening() reaches its permission request: it has returned early
\* if (!recognitionRef.current) and if (listeningStateRef.current !== "idle")
StartListeningProceeds == recognitionRef # "null" /\ listeningStateRef = "idle"

StartListeningWithin(limit) ==
  /\ mounted
  /\ permPending < limit
  /\ permPending' = IF StartListeningProceeds THEN permPending + 1 ELSE permPending
  /\ calls' = <<>>
  /\ svcCalls' = <<>>
  /\ ev' = Step("startListening", <<>>, <<>>)
  /\ UNCHANGED hhVars
  /\ UNCHANGED <<hookVars, service>>

StartListening == StartListeningWithin(MaxPending)

\* getUserMedia resolved: the rest of startListening()
PermissionGranted ==
  /\ permPending > 0
  /\ permPending' = permPending - 1
  /\ isIntentionallyStopped' = FALSE
  /\ listeningState' = IF mounted THEN "listening_for_wakeword" ELSE listeningState
  /\ service' = SvcStart(service)
  /\ calls' = <<>>
  /\ svcCalls' = <<"start">>
  /\ ev' = Step("permissionGranted", <<>>, <<>>)
  /\ UNCHANGED hhVars
  /\ UNCHANGED <<listeningStateRef, envVars, isAISpeakingRef, lastFinalTranscript,
                 replyVars, timerVars>>

\* getUserMedia rejected: startListening() returns from its catch
PermissionDenied ==
  /\ permPending > 0
  /\ permPending' = permPending - 1
  /\ calls' = <<>>
  /\ svcCalls' = <<>>
  /\ ev' = Step("permissionDenied", <<>>, <<>>)
  /\ UNCHANGED hhVars
  /\ UNCHANGED <<hookVars, service>>

ClearAllTimersButSilence ==
  /\ pendingTimers' =
       clearTimeout(clearTimeout(pendingTimers, commandTimeoutRef),
                    replyWindowTimeoutRef)
  /\ commandTimeoutRef' = "null"
  /\ replyWindowTimeoutRef' = "null"
  /\ replyWindowSilenceTimeoutRef' = replyWindowSilenceTimeoutRef

\* clearTimeout + null of the command, reply-window and reply-silence timers
ClearAllTimers ==
  /\ pendingTimers' =
       clearTimeout(clearTimeout(clearTimeout(pendingTimers, commandTimeoutRef),
                                 replyWindowTimeoutRef),
                    replyWindowSilenceTimeoutRef)
  /\ commandTimeoutRef' = "null"
  /\ replyWindowTimeoutRef' = "null"
  /\ replyWindowSilenceTimeoutRef' = "null"

StopListening ==
  /\ mounted
  /\ calls' = <<>>
  /\ ev' = Step("stopListening", <<>>, <<>>)
  /\ UNCHANGED hhVars
  /\ IF recognitionRef = "null" \/ listeningStateRef = "idle"
     THEN /\ svcCalls' = <<>>
          /\ UNCHANGED <<hookVars, service, permPending>>
     ELSE /\ isIntentionallyStopped' = TRUE
          /\ listeningState' = "idle"
          /\ ClearAllTimers
          /\ service' = SvcStop(service)
          /\ svcCalls' = <<"stop">>
          /\ UNCHANGED <<listeningStateRef, envVars, isAISpeakingRef,
                         lastFinalTranscript, replyVars, permPending>>

ClearReplyTimersWindowOnly(p) == clearTimeout(p, replyWindowTimeoutRef)

\* enableReplyWindow() clears the reply-window and the reply-silence timer
ClearReplyTimers(p) ==
  clearTimeout(clearTimeout(p, replyWindowTimeoutRef), replyWindowSilenceTimeoutRef)

EnableReplyWindowReadyAlways == TRUE

\* enableReplyWindow() goes on: if (!recognitionRef.current) return
EnableReplyWindowReady == recognitionRef # "null"

EnableReplyWindow ==
  /\ mounted
  /\ calls' = <<>>
  /\ svcCalls' = <<>>
  /\ ev' = Step("enableReplyWindow", <<>>, <<>>)
  /\ UNCHANGED hhVars
  /\ IF ~EnableReplyWindowReady
     THEN UNCHANGED <<hookVars, service, permPending>>
     ELSE /\ replyWindowSilenceTimeoutRef' = "null"
          /\ pendingTimers' = setTimeout(ClearReplyTimers(pendingTimers), "window")
          /\ lastFinalTranscript' = <<>>
          /\ replyWindowSpeechDetectedRef' = FALSE
          /\ replyWindowTranscriptRef' = <<>>
          /\ listeningState' = "listening_for_reply"
          /\ replyWindowTimeoutRef' = "window"
          /\ UNCHANGED <<listeningStateRef, envVars, isAISpeakingRef,
                         isIntentionallyStopped, commandTimeoutRef, service,
                         permPending>>

\* ----------------------------------------------------- recognition.onresult
WakeWordIndexFromStart(t) == 0

\* finalLower.indexOf(wakeWordLower)
WakeWordIndex(t) == indexOf(toLowerCase(t), toLowerCase(wakeWord))

AfterWakeWordFromStart(t) == trim(substring(t, Len(wakeWord)))

AfterWakeWordUntrimmed(t) == substring(t, WakeWordIndex(t) + Len(wakeWord))

\* finalTranscript.substring(wakeWordIndex + wakeWord.length).trim()
AfterWakeWord(t) == trim(substring(t, WakeWordIndex(t) + Len(wakeWord)))

TextToAccumulateUnstripped(t) == t

\* the text a final hypothesis adds to the reply accumulator
TextToAccumulate(t) == IF WakeWordIndex(t) # -1 THEN AfterWakeWord(t) ELSE t

AccumulateUnseparated(acc, text) == acc \o text

\* replyWindowTranscriptRef.current += (current ? " " : "") + textToAccumulate
Accumulate(acc, text) ==
  IF text # <<>>
  THEN acc \o (IF acc # <<>> THEN <<" ">> ELSE <<>>) \o text
  ELSE acc

\* the argument the command window passes to onResult
CommandText(t) == t

InterimCallsStartsCommand(interim) ==
  IF /\ interim # <<>>
     /\ listeningStateRef = "listening_for_wakeword"
     /\ includes(toLowerCase(interim), toLowerCase(wakeWord))
  THEN <<CbWake, CbCommandStart>> ELSE <<>>

\* the interim part of a batch: wake word callback in listening_for_wakeword
InterimCalls(interim) ==
  IF /\ interim # <<>>
     /\ listeningStateRef = "listening_for_wakeword"
     /\ includes(toLowerCase(interim), toLowerCase(wakeWord))
  THEN <<CbWake>> ELSE <<>>

InterimMarksSpeechWhileSpeaking(interim) ==
  /\ interim # <<>>
  /\ listeningStateRef = "listening_for_reply"
  /\ ~replyWindowSpeechDetectedRef

\* the interim part of a batch marks the first speech of a reply window
InterimMarksSpeech(interim) ==
  /\ interim # <<>>
  /\ listeningStateRef = "listening_for_reply"
  /\ ~isAISpeakingRef
  /\ ~replyWindowSpeechDetectedRef

\* the final part of a batch is processed (non-empty and no duplicate)
FinalProcessed(final) == final # <<>> /\ final # lastFinalTranscript

\* if (commandTimeoutRef.current) clearTimeout(...); commandTimeoutRef.current =
\* setTimeout(...)
RearmCommandTimeout(p) == setTimeout(clearTimeout(p, commandTimeoutRef), "command")

OnResultWakeword(interim, final) ==
  /\ UNCHANGED <<listeningStateRef, envVars, isAISpeakingRef, replyVars,
                 replyWindowTimeoutRef, replyWindowSilenceTimeoutRef, permPending>>
  /\ IF WakeWordIndex(final) = -1
     THEN /\ lastFinalTranscript' = final
          /\ calls' = InterimCalls(interim)
          /\ svcCalls' = <<>>
          /\ UNCHANGED <<listeningState, isIntentionallyStopped, commandTimeoutRef,
                         pendingTimers, service>>
     ELSE /\ isIntentionallyStopped' = TRUE
          /\ lastFinalTranscript' = <<>>
          /\ service' = SvcStop(service)
          /\ svcCalls' = <<"stop">>
          /\ IF AfterWakeWord(final) # <<>>
             THEN /\ calls' = InterimCalls(interim)
                               \o <<CbWake, CbResult(AfterWakeWord(final))>>
                  /\ UNCHANGED <<listeningState, commandTimeoutRef, pendingTimers>>
             ELSE /\ listeningState' = "listening_for_command"
                  /\ calls' = InterimCalls(interim) \o <<CbWake, CbCommandStart>>
                  /\ pendingTimers' = RearmCommandTimeout(pendingTimers)
                  /\ commandTimeoutRef' = "command"

OnResultCommand(interim, final) ==
  /\ pendingTimers' = clearTimeout(pendingTimers, commandTimeoutRef)
  /\ commandTimeoutRef' = "null"
  /\ calls' = InterimCalls(interim) \o <<CbResult(CommandText(final))>>
  /\ lastFinalTranscript' = <<>>
  /\ listeningState' = "listening_for_wakeword"
  /\ service' = SvcStop(service)
  /\ svcCalls' = <<"stop">>
  /\ UNCHANGED <<listeningStateRef, envVars, isAISpeakingRef, isIntentionallyStopped,
                 replyVars, replyWindowTimeoutRef, replyWindowSilenceTimeoutRef,
                 permPending>>

FirstSpeechClearsNothing(p) == p

\* the first speech of a reply window clears the reply-window timeout
FirstSpeechClears(p) ==
  IF replyWindowSpeechDetectedRef THEN p ELSE clearTimeout(p, replyWindowTimeoutRef)

RearmNoSpeechTimeoutNoClear(p) == setTimeout(p, "nospeech")

\* if (replyWindowTimeoutRef.current) clearTimeout(...); replyWindowTimeoutRef.current
\* = setTimeout(...), after the first speech has nulled the ref
RearmNoSpeechTimeout(p) ==
  setTimeout(IF replyWindowSpeechDetectedRef
             THEN clearTimeout(p, replyWindowTimeoutRef) ELSE p, "nospeech")

OnResultReply(interim, final) ==
  /\ lastFinalTranscript' = <<>>
  /\ calls' = InterimCalls(interim)
  /\ svcCalls' = <<>>
  /\ UNCHANGED <<listeningState, listeningStateRef, envVars, isAISpeakingRef,
                 isIntentionallyStopped, commandTimeoutRef,
                 replyWindowSilenceTimeoutRef, service, permPending>>
  /\ IF isAISpeakingRef
     THEN UNCHANGED <<replyVars, replyWindowTimeoutRef, pendingTimers>>
     ELSE /\ replyWindowSpeechDetectedRef' = TRUE
          /\ pendingTimers' = RearmNoSpeechTimeout(FirstSpeechClears(pendingTimers))
          /\ replyWindowTranscriptRef' =
               Accumulate(replyWindowTranscriptRef, TextToAccumulate(final))
          /\ replyWindowTimeoutRef' = "nospeech"

\* a batch whose final part is empty or a duplicate: only the interim part acts
OnResultInterimOnly(interim) ==
  /\ calls' = InterimCalls(interim)
  /\ svcCalls' = <<>>
  /\ replyWindowSpeechDetectedRef' =
       (replyWindowSpeechDetectedRef \/ InterimMarksSpeech(interim))
  /\ replyWindowTimeoutRef' =
       IF InterimMarksSpeech(interim) THEN "null" ELSE replyWindowTimeoutRef
  /\ pendingTimers' =
       IF InterimMarksSpeech(interim)
       THEN clearTimeout(pendingTimers, replyWindowTimeoutRef) ELSE pendingTimers
  /\ UNCHANGED <<listeningState, listeningStateRef, envVars, isAISpeakingRef,
                 lastFinalTranscript, isIntentionallyStopped,
                 replyWindowTranscriptRef, commandTimeoutRef,
                 replyWindowSilenceTimeoutRef, service, permPending>>

OnResult(interim, final) ==
  /\ HandlersAttached
  /\ service \in {"active", "stopping"}
  /\ interim # <<>> \/ final # <<>>
  /\ Len(replyWindowTranscriptRef) <= MaxAccLen
  /\ ev' = Step("onresult", interim, final)
  /\ UNCHANGED hhVars
  /\ IF ~FinalProcessed(final)
     THEN OnResultInterimOnly(interim)
     ELSE CASE listeningStateRef = "listening_for_wakeword" ->
                 OnResultWakeword(interim, final)
            [] listeningStateRef = "listening_for_command" ->
                 OnResultCommand(interim, final)
            [] listeningStateRef = "listening_for_reply" ->
                 OnResultReply(interim, final)
            [] OTHER ->
                 /\ lastFinalTranscript' = final
                 /\ calls' = <<>>
                 /\ svcCalls' = <<>>
                 /\ UNCHANGED <<listeningState, listeningStateRef, envVars,
                                isAISpeakingRef, isIntentionallyStopped, replyVars,
                                timerVars, service, permPending>>

\* ------------------------------------------------------------------ timers
\* replyWindowTranscriptRef.current.trim(): the text a flush delivers
AccumulatedText == trim(replyWindowTranscriptRef)

FlushResetsKeepsText ==
  /\ replyWindowSpeechDetectedRef' = FALSE
  /\ replyWindowTranscriptRef' = replyWindowTranscriptRef
  /\ lastFinalTranscript' = <<>>
  /\ listeningState' = "listening_for_wakeword"

FlushResetsToUnknownState ==
  /\ replyWindowSpeechDetectedRef' = FALSE
  /\ replyWindowTranscriptRef' = <<>>
  /\ lastFinalTranscript' = <<>>
  /\ listeningState' = "listening"

\* "Reset reply window state" of the three flush paths
FlushResets ==
  /\ replyWindowSpeechDetectedRef' = FALSE
  /\ replyWindowTranscriptRef' = <<>>
  /\ lastFinalTranscript' = <<>>
  /\ listeningState' = "listening_for_wakeword"

\* the 2000 ms command timeout armed by onresult
CommandTimeoutFires ==
  /\ pendingTimers["command"] > 0
  /\ pendingTimers' = Fired(pendingTimers, "command")
  /\ listeningState' = "listening_for_wakeword"
  /\ isIntentionallyStopped' = FALSE
  /\ commandTimeoutRef' = "null"
  /\ service' = SvcStop(service)
  /\ calls' = <<>>
  /\ svcCalls' = <<"stop">>
  /\ ev' = Step("commandTimeout", <<>>, <<>>)
  /\ UNCHANGED hhVars
  /\ UNCHANGED <<listeningStateRef, envVars, isAISpeakingRef, lastFinalTranscript,
                 replyVars, replyWindowTimeoutRef, replyWindowSilenceTimeoutRef,
                 permPending>>

\* the 2000 ms reply-window timeout armed by enableReplyWindow
ReplyWindowTimeoutFires ==
  /\ pendingTimers["window"] > 0
  /\ pendingTimers' = Fired(pendingTimers, "window")
  /\ listeningState' = "listening_for_wakeword"
  /\ replyWindowTimeoutRef' = "null"
  /\ service' = SvcStop(service)
  /\ calls' = <<>>
  /\ svcCalls' = <<"stop">>
  /\ ev' = Step("replyWindowTimeout", <<>>, <<>>)
  /\ UNCHANGED hhVars
  /\ UNCHANGED <<listeningStateRef, envVars, isAISpeakingRef, lastFinalTranscript,
                 isIntentionallyStopped, replyVars, commandTimeoutRef,
                 replyWindowSilenceTimeoutRef, permPending>>

\* the 1000 ms no-new-speech timeout armed by a final hypothesis of a reply
NoSpeechTimeoutFires ==
  /\ pendingTimers["nospeech"] > 0
  /\ pendingTimers' = Fired(pendingTimers, "nospeech")
  /\ ev' = Step("noSpeechTimeout", <<>>, <<>>)
  /\ UNCHANGED hhVars
  /\ UNCHANGED <<listeningStateRef, envVars, isAISpeakingRef, isIntentionallyStopped,
                 commandTimeoutRef, replyWindowSilenceTimeoutRef, permPending>>
  /\ IF AccumulatedText # <<>>
     THEN /\ calls' = <<CbResult(AccumulatedText)>>
          /\ FlushResets
          /\ replyWindowTimeoutRef' = "null"
          /\ service' = SvcStop(service)
          /\ svcCalls' = <<"stop">>
     ELSE /\ replyWindowTimeoutRef' =
               IF replyWindowTimeoutRef = "nospeech" THEN "fired"
               ELSE replyWindowTimeoutRef
          /\ calls' = <<>>
          /\ svcCalls' = <<>>
          /\ UNCHANGED <<listeningState, lastFinalTranscript, replyVars, service>>

\* the 500 ms settle timeout armed by onspeechend
SettleTimeoutFires ==
  /\ pendingTimers["settle"] > 0
  /\ ev' = Step("settleTimeout", <<>>, <<>>)
  /\ UNCHANGED hhVars
  /\ replyWindowSilenceTimeoutRef' = "null"
  /\ UNCHANGED <<listeningStateRef, envVars, isAISpeakingRef, isIntentionallyStopped,
                 commandTimeoutRef, permPending>>
  /\ IF AccumulatedText # <<>>
     THEN /\ replyWindowTimeoutRef' = "null"
          /\ pendingTimers' =
               clearTimeout(Fired(pendingTimers, "settle"), replyWindowTimeoutRef)
          /\ calls' = <<CbResult(AccumulatedText)>>
          /\ FlushResets
          /\ service' = SvcStop(service)
          /\ svcCalls' = <<"stop">>
     ELSE /\ pendingTimers' = Fired(pendingTimers, "settle")
          /\ calls' = <<>>
          /\ svcCalls' = <<>>
          /\ UNCHANGED <<listeningState, lastFinalTranscript, replyVars,
                         replyWindowTimeoutRef, service>>

\* -------------------------------------------------- other service handlers
RearmSettleTimeoutNoClear(p) == setTimeout(p, "settle")

\* if (replyWindowSilenceTimeoutRef.current) clearTimeout(...);
\* replyWindowSilenceTimeoutRef.current = setTimeout(...)
RearmSettleTimeout(p) ==
  setTimeout(clearTimeout(p, replyWindowSilenceTimeoutRef), "settle")

OnSpeechEnd ==
  /\ HandlersAttached
  /\ service \in {"active", "stopping"}
  /\ calls' = <<>>
  /\ svcCalls' = <<>>
  /\ ev' = Step("onspeechend", <<>>, <<>>)
  /\ UNCHANGED hhVars
  /\ replyWindowSilenceTimeoutRef' =
       IF listeningStateRef = "listening_for_reply" /\ replyWindowSpeechDetectedRef
       THEN "settle" ELSE replyWindowSilenceTimeoutRef
  /\ pendingTimers' =
       IF listeningStateRef = "listening_for_reply" /\ replyWindowSpeechDetectedRef
       THEN RearmSettleTimeout(pendingTimers) ELSE pendingTimers
  /\ UNCHANGED <<listeningState, listeningStateRef, envVars, isAISpeakingRef,
                 lastFinalTranscript, isIntentionallyStopped, replyVars,
                 commandTimeoutRef, replyWindowTimeoutRef, service, permPending>>

OnEndFallbackUnlessTimerPending ==
  /\ listeningStateRef = "listening_for_reply"
  /\ replyWindowSpeechDetectedRef
  /\ AccumulatedText # <<>>
  /\ pendingTimers["nospeech"] = 0

\* onend takes the reply-window fallback flush
OnEndFallback ==
  /\ listeningStateRef = "listening_for_reply"
  /\ replyWindowSpeechDetectedRef
  /\ AccumulatedText # <<>>

OnEndRestartsWakewordOnly(currentState) == currentState = "listening_for_wakeword"

\* onend restarts the service: if (currentState !== "idle")
OnEndRestarts(currentState) == currentState # "idle"

OnEnd ==
  /\ HandlersAttached
  /\ service \in {"active", "stopping"}
  /\ ev' = Step("onend", <<>>, <<>>)
  /\ UNCHANGED hhVars
  /\ isIntentionallyStopped' = FALSE
  /\ UNCHANGED <<listeningStateRef, envVars, isAISpeakingRef, commandTimeoutRef,
                 replyWindowSilenceTimeoutRef, permPending>>
  /\ IF OnEndFallback
     THEN /\ replyWindowTimeoutRef' = "null"
          /\ pendingTimers' = clearTimeout(pendingTimers, replyWindowTimeoutRef)
          /\ calls' = <<CbResult(AccumulatedText)>>
          /\ FlushResets
          /\ service' = "inactive"
          /\ svcCalls' = <<>>
     ELSE /\ calls' = <<>>
          /\ service' =
               IF OnEndRestarts(listeningStateRef) THEN "active" ELSE "inactive"
          /\ svcCalls' =
               IF OnEndRestarts(listeningStateRef) THEN <<"start">> ELSE <<>>
          /\ UNCHANGED <<listeningState, lastFinalTranscript, replyVars,
                         replyWindowTimeoutRef, pendingTimers>>

OnErrorGoesIdle ==
  /\ HandlersAttached
  /\ service \in {"active", "stopping"}
  /\ calls' = <<>>
  /\ svcCalls' = <<>>
  /\ ev' = Step("onerror", <<>>, <<>>)
  /\ UNCHANGED hhVars
  /\ listeningState' = "idle"
  /\ UNCHANGED <<listeningStateRef, envVars, isAISpeakingRef, lastFinalTranscript,
                 isIntentionallyStopped, replyVars, timerVars, service, permPending>>

OnError ==
  /\ HandlersAttached
  /\ service \in {"active", "stopping"}
  /\ calls' = <<>>
  /\ svcCalls' = <<>>
  /\ ev' = Step("onerror", <<>>, <<>>)
  /\ UNCHANGED hhVars
  /\ UNCHANGED <<hookVars, service, permPending>>

\* ---------------------------------------------------------------- teardown
\* the cleanup returned by the mount effect
Cleanup ==
  /\ mounted
  /\ mounted' = FALSE
  /\ calls' = <<>>
  /\ ev' = Step("cleanup", <<>>, <<>>)
  /\ UNCHANGED hhVars
  /\ IF recognitionRef = "null"
     THEN /\ svcCalls' = <<>>
          /\ UNCHANGED <<listeningState, listeningStateRef, isSupported,
                         recognitionRef, isAISpeakingRef, lastFinalTranscript,
                         isIntentionallyStopped, replyVars, timerVars, service,
                         permPending>>
     ELSE /\ ClearAllTimers
          /\ isIntentionallyStopped' = FALSE
          /\ lastFinalTranscript' = <<>>
          /\ replyWindowSpeechDetectedRef' = FALSE
          /\ replyWindowTranscriptRef' = <<>>
          /\ service' = SvcStop(service)
          /\ svcCalls' = <<"stop">>
          /\ UNCHANGED <<listeningState, listeningStateRef, isSupported,
                         recognitionRef, isAISpeakingRef, permPending>>

\* the service ends with its handlers detached: no handler runs
ServiceEndsDetached ==
  /\ ~mounted
  /\ service \in {"active", "stopping"}
  /\ service' = "inactive"
  /\ calls' = <<>>
  /\ svcCalls' = <<>>
  /\ ev' = Step("endDetached", <<>>, <<>>)
  /\ UNCHANGED hhVars
  /\ UNCHANGED <<hookVars, permPending>>

\* ----------------------------------------------------------- specification
Next ==
  \/ ListeningStateEffect
  \/ IsAISpeakingEffect
  \/ StartListening
  \/ PermissionGranted
  \/ PermissionDenied
  \/ StopListening
  \/ EnableReplyWindow
  \/ \E interim \in InterimTexts, final \in FinalTexts : OnResult(interim, final)
  \/ OnSpeechEnd
  \/ OnEnd
  \/ OnError
  \/ CommandTimeoutFires
  \/ ReplyWindowTimeoutFires
  \/ NoSpeechTimeoutFires
  \/ SettleTimeoutFires
  \/ Cleanup
  \/ ServiceEndsDetached

Spec == Init /\ [][Next]_vars

\* ------------------------------------------ overlapping startListening calls
\* startListening() called while earlier calls may still await the permission
StartListeningAgain == StartListeningWithin(MaxOverlap)

\* the public operations and the service lifecycle, without result batches
NextOverlap ==
  \/ ListeningStateEffect
  \/ StartListeningAgain
  \/ PermissionGranted
  \/ PermissionDenied
  \/ StopListening
  \/ OnEnd
  \/ Cleanup
  \/ ServiceEndsDetached

SpecOverlap == Init /\ [][NextOverlap]_vars

\* ------------------------------------------- useHomeworkHacker: operations
InFlight == {r \in Requests : reqState[r] \in {"connecting", "streaming"}}

HHStep(op, r) == [op |-> op, req |-> r]

\* finally { setIsLoading(false); abortControllerRef.current = null; }
Finally(r) ==
  /\ isLoading' = FALSE
  /\ abortControllerRef' = 0
  /\ reqState' = [reqState EXCEPT ![r] = "finished"]

\* the body shared by sendMessage and sendAIPromptWithoutUserMessage, up to
\* the await of generateContentStream: returns early without content or
\* without a client; else setIsLoading(true), a new AbortController replaces
\* the one in the ref, and an empty assistant message is appended
SendRequest(kind, hasContent, addsUserMessage) ==
  IF ~hasContent \/ aiRef = "null"
  THEN /\ hhEv' = HHStep(kind, 0)
       /\ UNCHANGED <<aiRef, isLoading, abortControllerRef, aborted, reqState,
                      reqKind, assistantContent, messages, userMessages,
                      cancelledInFlight>>
  ELSE \E r \in Requests :
         /\ reqState[r] = "unused"
         /\ \A q \in Requests : q < r => reqState[q] # "unused"
         /\ userMessages' = IF addsUserMessage THEN userMessages + 1 ELSE userMessages
         /\ isLoading' = TRUE
         /\ abortControllerRef' = r
         /\ messages' = [messages EXCEPT ![r] = 0]
         /\ reqState' = [reqState EXCEPT ![r] = "connecting"]
         /\ reqKind' = [reqKind EXCEPT ![r] = kind]
         /\ hhEv' = HHStep(kind, r)
         /\ UNCHANGED <<aiRef, aborted, assistantContent, cancelledInFlight>>

SendMessage ==
  /\ \E hasContent \in BOOLEAN : SendRequest("sendMessage", hasContent, TRUE)
  /\ UNCHANGED vars

SendAIPromptWithoutUserMessage ==
  /\ \E hasContent \in BOOLEAN : SendRequest("sendAIPrompt", hasContent, FALSE)
  /\ UNCHANGED vars

\* await generateContentStream(...) resolves: the for-await loop starts
StreamOpens ==
  /\ \E r \in Requests :
       /\ reqState[r] = "connecting"
       /\ reqState' = [reqState EXCEPT ![r] = "streaming"]
       /\ hhEv' = HHStep("streamOpens", r)
  /\ UNCHANGED <<aiRef, isLoading, abortControllerRef, aborted, reqKind,
                 assistantContent, messages, userMessages, cancelledInFlight>>
  /\ UNCHANGED vars

\* if (abortControllerRef.current?.signal.aborted) break;  -- the controller
\* now in the ref, whichever request created it; null reads as not aborted
ChunkStops == abortControllerRef # 0 /\ abortControllerRef \in aborted

\* one iteration of for await (const chunk of response)
ChunkArrives ==
  /\ \E r \in Requests, hasText \in BOOLEAN :
       /\ reqState[r] = "streaming"
       /\ hhEv' = HHStep("chunk", r)
       /\ IF ChunkStops
          THEN /\ Finally(r)
               /\ UNCHANGED <<assistantContent, messages>>
          ELSE /\ UNCHANGED <<isLoading, abortControllerRef, reqState>>
               /\ IF hasText /\ assistantContent[r] < MaxChunks
                  THEN /\ assistantContent' =
                            [assistantContent EXCEPT ![r] = @ + 1]
                       /\ messages' =
                            [messages EXCEPT
                               ![r] = IF @ = -1 THEN -1 ELSE assistantContent[r] + 1]
                  ELSE UNCHANGED <<assistantContent, messages>>
  /\ UNCHANGED <<aiRef, aborted, reqKind, userMessages, cancelledInFlight>>
  /\ UNCHANGED vars

\* the stream ends: the loop exits normally, then finally
StreamEnds ==
  /\ \E r \in Requests :
       /\ reqState[r] = "streaming"
       /\ Finally(r)
       /\ hhEv' = HHStep("streamEnds", r)
  /\ UNCHANGED <<aiRef, aborted, reqKind, assistantContent, messages,
                 userMessages, cancelledInFlight>>
  /\ UNCHANGED vars

\* the request or the stream throws: catch returns on AbortError, else drops
\* every assistant message without content; finally runs in both cases
RequestFails ==
  /\ \E r \in Requests, isAbortError \in BOOLEAN :
       /\ reqState[r] \in {"connecting", "streaming"}
       /\ messages' = IF isAbortError
                      THEN messages
                      ELSE [q \in Requests |-> IF messages[q] = 0 THEN -1 ELSE messages[q]]
       /\ Finally(r)
       /\ hhEv' = HHStep("requestFails", r)
  /\ UNCHANGED <<aiRef, aborted, reqKind, assistantContent, userMessages,
                 cancelledInFlight>>
  /\ UNCHANGED vars

\* abortControllerRef.current?.abort(); setIsLoading(false);
CancelRequest ==
  /\ aborted' = IF abortControllerRef = 0 THEN aborted
                ELSE aborted \cup {abortControllerRef}
  /\ isLoading' = FALSE
  /\ cancelledInFlight' = cancelledInFlight \cup InFlight
  /\ hhEv' = HHStep("cancelRequest", 0)
  /\ UNCHANGED <<aiRef, abortControllerRef, reqState, reqKind, assistantContent,
                 messages, userMessages>>
  /\ UNCHANGED vars

\* setMessages([])
ClearMessages ==
  /\ messages' = [r \in Requests |-> -1]
  /\ userMessages' = 0
  /\ hhEv' = HHStep("clearMessages", 0)
  /\ UNCHANGED <<aiRef, isLoading, abortControllerRef, aborted, reqState, reqKind,
                 assistantContent, cancelledInFlight>>
  /\ UNCHANGED vars

NextHH ==
  \/ SendMessage
  \/ SendAIPromptWithoutUserMessage
  \/ StreamOpens
  \/ ChunkArrives
  \/ StreamEnds
  \/ RequestFails
  \/ CancelRequest
  \/ ClearMessages

\* useHomeworkHacker on its own, with or without a configured client
InitHH ==
  /\ InitSpeechRecognition
  /\ recognitionRef = "instance"
  /\ ~isAISpeakingRef
  /\ InitHomeworkHacker

SpecHH == InitHH /\ [][NextHH]_<<vars, hhVars>>

\* ==================================================================== claims
\* The handlers and the public operations read the listening state from
\* listeningStateRef; listeningState is the value of the last transition.

FlushOps == {"noSpeechTimeout", "settleTimeout", "onend"}

\* C1: within a reply window (listeningState = listening_for_reply) each of the
\* three flush paths invokes onResult at most once, with the trimmed
\* accumulated text, and the flush ends the window: the accumulator is empty,
\* speechDetected is false and the state is listening_for_wakeword, so no
\* second flush of that window can follow, whichever path fires next.
C1_SingleFlush ==
  [][(listeningState = "listening_for_reply" /\ ev'.op \in FlushOps /\ calls' # <<>>)
       => /\ calls' = <<CbResult(trim(replyWindowTranscriptRef))>>
          /\ trim(replyWindowTranscriptRef) # <<>>
          /\ replyWindowTranscriptRef' = <<>>
          /\ replyWindowSpeechDetectedRef' = FALSE
          /\ listeningState' = "listening_for_wakeword"]_vars

\* a flush by the no-new-speech timer while the settle timer is still pending
C1_Witness ==
  /\ ev.op = "noSpeechTimeout"
  /\ ev.was = "listening_for_reply"
  /\ calls = <<CbResult(TxtA)>>
  /\ replyWindowSilenceTimeoutRef = "settle"
  /\ listeningState = "listening_for_wakeword"

\* C2: while the speaking flag is true and the handler reads
\* listening_for_reply, a result batch (partial, final or both) leaves the
\* accumulator, speechDetected, the three timers and the listening state
\* unchanged and invokes no callback; the dedupe cache is kept or cleared.
C2_IgnoredWhileSpeaking ==
  [][(ev'.op = "onresult" /\ isAISpeakingRef
        /\ listeningStateRef = "listening_for_reply")
       => /\ UNCHANGED <<replyVars, timerVars, listeningState>>
          /\ calls' = <<>>
          /\ lastFinalTranscript' \in {lastFinalTranscript, <<>>}]_vars

\* a partial and a final hypothesis discarded in an open reply window
C2_Witness ==
  /\ ev.op = "onresult"
  /\ ev.interim = TxtA
  /\ ev.final = TxtSpA
  /\ ev.was = "listening_for_reply"
  /\ listeningStateRef = "listening_for_reply"
  /\ isAISpeakingRef
  /\ replyWindowTimeoutRef = "window"
  /\ ~replyWindowSpeechDetectedRef

\* C3: a final hypothesis delivered twice in a row: the second delivery is
\* discarded without reprocessing (no callback, no change of the hook's state).
C3_Idempotent ==
  [][(ev.op = "onresult" /\ ev'.op = "onresult" /\ ev.final # <<>>
        /\ ev'.final = ev.final /\ ev'.interim = <<>>)
       => (calls' = <<>> /\ UNCHANGED hookVars)]_vars

\* C4: stopListening() invoked while the state it reads is not idle: the state
\* is idle, the intentional-stop flag is set, stop() has been requested and no
\* command, reply-window or reply-silence timer is left pending to fire.
C4_StopCancelsTimers ==
  [][(ev'.op = "stopListening" /\ recognitionRef = "instance"
        /\ listeningStateRef # "idle")
       => /\ listeningState' = "idle"
          /\ isIntentionallyStopped'
          /\ svcCalls' = <<"stop">>
          /\ commandTimeoutRef' = "null"
          /\ replyWindowTimeoutRef' = "null"
          /\ replyWindowSilenceTimeoutRef' = "null"]_vars

\* stopListening() in a reply window (its timers were pending or not)
C4_Witness ==
  /\ ev.op = "stopListening"
  /\ ev.was = "listening_for_reply"
  /\ listeningStateRef = "listening_for_reply"
  /\ listeningState = "idle"
  /\ svcCalls = <<"stop">>
  /\ service = "stopping"

\* C5: after stopListening() (state idle, intentional-stop flag set) the
\* service-ended signal never restarts the service.
C5_NoRestartAfterStop ==
  [][(ev'.op = "onend" /\ listeningState = "idle" /\ isIntentionallyStopped)
       => svcCalls' = <<>>]_vars

\* C6: handling the service-ended signal: after a fallback flush the service
\* is not restarted; otherwise start() is invoked when the state read is not
\* idle, and is not invoked when it is idle.
C6_RestartPolicy ==
  [][ev'.op = "onend"
       => IF calls' # <<>>
          THEN svcCalls' = <<>> /\ service' = "inactive"
          ELSE /\ listeningStateRef # "idle"
                    => (svcCalls' = <<"start">> /\ service' = "active")
               /\ listeningStateRef = "idle"
                    => (svcCalls' = <<>> /\ service' = "inactive")]_vars

\* the service ended in a command window and was restarted
C6_Witness ==
  /\ ev.op = "onend"
  /\ listeningStateRef = "listening_for_command"
  /\ ev.was = "listening_for_command"
  /\ svcCalls = <<"start">>
  /\ service = "active"

\* C7: every reply window ends by its timers alone: in every state of the
\* mounted hook with listeningState = listening_for_reply a timer is pending
\* whose firing leaves
\* listening_for_reply (the window timeout, a command timeout, or a
\* no-new-speech or settle timer that has text to flush).
C7_ReplyWindowEnds ==
  (mounted /\ listeningState = "listening_for_reply")
    => \/ replyWindowTimeoutRef = "window"
       \/ commandTimeoutRef = "command"
       \/ /\ trim(replyWindowTranscriptRef) # <<>>
          /\ \/ replyWindowTimeoutRef = "nospeech"
             \/ replyWindowSilenceTimeoutRef = "settle"

\* the wake phrase occurs in t at offset i, letter case ignored
WakeAt(t, i) ==
  /\ i + Len(wakeWord) <= Len(t)
  /\ \A k \in 1..Len(wakeWord) : LowerOf(t[i + k]) = LowerOf(wakeWord[k])

ContainsWake(t) == \E i \in 0..Len(t) : WakeAt(t, i)

\* the trimmed text that follows the first occurrence of the wake phrase
TextAfterWake(t) ==
  LET i == CHOOSE i \in 0..Len(t) : WakeAt(t, i) /\ \A j \in 0..(i - 1) : ~WakeAt(t, j)
  IN trim(SubSeq(t, i + Len(wakeWord) + 1, Len(t)))

\* onWakeWordDetected of the partial part of a batch read in listening_for_wakeword
PartialWake(interim) == IF ContainsWake(interim) THEN <<CbWake>> ELSE <<>>

\* C8: the handler reads listening_for_wakeword and processes a final
\* hypothesis (no duplicate of the dedupe cache) holding the wake phrase
\* followed by non-empty text: onWakeWordDetected, then onResult exactly once
\* with the trimmed text after the wake phrase; stop() is requested;
\* onCommandStart is not invoked, the state is not changed and no command
\* timeout is armed.
C8_InlineCommand ==
  [][(ev'.op = "onresult" /\ listeningStateRef = "listening_for_wakeword"
        /\ ev'.final # lastFinalTranscript /\ ContainsWake(ev'.final)
        /\ TextAfterWake(ev'.final) # <<>>)
       => /\ calls' = PartialWake(ev'.interim)
                       \o <<CbWake, CbResult(TextAfterWake(ev'.final))>>
          /\ svcCalls' = <<"stop">>
          /\ listeningState' = listeningState
          /\ commandTimeoutRef' = commandTimeoutRef]_vars

\* "x HEY buddy A " heard in listening_for_wakeword: onResult("A")
C8_Witness ==
  /\ ev.op = "onresult"
  /\ ev.final = TxtWakeCmd
  /\ ev.was = "listening_for_wakeword"
  /\ listeningStateRef = "listening_for_wakeword"
  /\ calls = <<CbWake, CbResult(<<"A">>)>>
  /\ listeningState = "listening_for_wakeword"
  /\ commandTimeoutRef = "null"
  /\ service = "stopping"

\* C9: the handler reads listening_for_wakeword and processes a final
\* hypothesis holding the wake phrase followed by whitespace only:
\* onWakeWordDetected and onCommandStart, state listening_for_command, command
\* timeout armed; when the command timeout fires the state is
\* listening_for_wakeword, stop() is requested and no callback is invoked.
C9_CommandWindow ==
  [][/\ (ev'.op = "onresult" /\ listeningStateRef = "listening_for_wakeword"
           /\ ev'.final # lastFinalTranscript /\ ContainsWake(ev'.final)
           /\ TextAfterWake(ev'.final) = <<>>)
          => /\ calls' = PartialWake(ev'.interim) \o <<CbWake, CbCommandStart>>
             /\ listeningState' = "listening_for_command"
             /\ commandTimeoutRef' = "command"
     /\ ev'.op = "commandTimeout"
          => /\ commandTimeoutRef = "command"
             /\ listeningState' = "listening_for_wakeword"
             /\ commandTimeoutRef' = "null"
             /\ svcCalls' = <<"stop">>
             /\ calls' = <<>>]_vars

\* the command timeout fired in a command window that heard nothing
C9_Witness ==
  /\ ev.op = "commandTimeout"
  /\ ev.was = "listening_for_command"
  /\ listeningStateRef = "listening_for_command"
  /\ listeningState = "listening_for_wakeword"
  /\ svcCalls = <<"stop">>
  /\ calls = <<>>

\* C10: the handler reads listening_for_command and processes a final
\* hypothesis: the command timeout is cancelled, onResult is invoked exactly
\* once with the trimmed text of the hypothesis, the dedupe cache is cleared,
\* the state is listening_for_wakeword and stop() is requested.
C10_CommandResult ==
  [][(ev'.op = "onresult" /\ listeningStateRef = "listening_for_command"
        /\ ev'.final # <<>> /\ ev'.final # lastFinalTranscript)
       => /\ calls' = <<CbResult(trim(ev'.final))>>
          /\ commandTimeoutRef' = "null"
          /\ lastFinalTranscript' = <<>>
          /\ listeningState' = "listening_for_wakeword"
          /\ svcCalls' = <<"stop">>]_vars

\* the text a final hypothesis contributes to a reply: what follows the wake
\* phrase when it holds one, the hypothesis itself otherwise
ReplyText(t) == IF ContainsWake(t) THEN TextAfterWake(t) ELSE t

\* acc followed by text, one space between them when both are non-empty
JoinedBySpace(acc, text) ==
  IF text = <<>> THEN acc
  ELSE IF acc = <<>> THEN text
  ELSE acc \o <<" ">> \o text

\* C11: the handler reads listening_for_reply with speaking false and processes
\* a final hypothesis: its text is appended to the accumulator, after what
\* arrived before and separated from it by one space, nothing is delivered yet
\* and exactly one 1000 ms no-new-speech timer is pending afterwards; when that
\* timer fires over non-empty accumulated text, onResult is invoked exactly
\* once with the whole trimmed accumulator and the state becomes
\* listening_for_wakeword.
C11_ReplyAccumulation ==
  [][/\ (ev'.op = "onresult" /\ listeningStateRef = "listening_for_reply"
           /\ ~isAISpeakingRef
           /\ ev'.final # <<>> /\ ev'.final # lastFinalTranscript)
          => /\ replyWindowTranscriptRef' =
                  JoinedBySpace(replyWindowTranscriptRef, ReplyText(ev'.final))
             /\ replyWindowTimeoutRef' = "nospeech"
             /\ pendingTimers'["nospeech"] = 1
             /\ pendingTimers'["window"] = 0
             /\ calls' = <<>>
     /\ (ev'.op = "noSpeechTimeout" /\ trim(replyWindowTranscriptRef) # <<>>)
          => /\ calls' = <<CbResult(trim(replyWindowTranscriptRef))>>
             /\ replyWindowTranscriptRef' = <<>>
             /\ pendingTimers'["nospeech"] = 0
             /\ listeningState' = "listening_for_wakeword"]_vars

\* two final hypotheses of one reply window were delivered as one utterance
C11_Witness ==
  /\ ev.op = "noSpeechTimeout"
  /\ ev.was = "listening_for_reply"
  /\ calls = <<CbResult(<<"a", " ", "a">>)>>
  /\ listeningState = "listening_for_wakeword"

\* C12: while the 2000 ms window timeout is pending no speech has been
\* detected and nothing is accumulated; a batch the handler receives in
\* listening_for_reply with speaking true leaves the timeout pending and is
\* discarded; when the timeout fires the state becomes listening_for_wakeword,
\* stop() is requested (the service ends and onend restarts it) and onResult
\* is not invoked.
C12_SilentWindowTimesOut ==
  [][/\ pendingTimers["window"] > 0
          => (~replyWindowSpeechDetectedRef /\ replyWindowTranscriptRef = <<>>)
     /\ (ev'.op = "onresult" /\ listeningStateRef = "listening_for_reply"
           /\ isAISpeakingRef /\ pendingTimers["window"] > 0)
          => /\ pendingTimers' = pendingTimers
             /\ replyWindowTimeoutRef' = "window"
             /\ UNCHANGED replyVars
             /\ calls' = <<>>
     /\ ev'.op = "replyWindowTimeout"
          => /\ listeningState' = "listening_for_wakeword"
             /\ svcCalls' = <<"stop">>
             /\ service' = SvcStop(service)
             /\ calls' = <<>>
             /\ pendingTimers'["window"] = 0
             /\ UNCHANGED replyVars]_vars

\* the window timeout fired in a reply window during which the AI was speaking
C12_Witness ==
  /\ ev.op = "replyWindowTimeout"
  /\ ev.was = "listening_for_reply"
  /\ listeningStateRef = "listening_for_reply"
  /\ isAISpeakingRef
  /\ listeningState = "listening_for_wakeword"
  /\ service = "stopping"
  /\ calls = <<>>

\* C13: the handler reads listening_for_reply with speaking false and processes
\* a final hypothesis that holds the wake phrase at some offset, in any letter
\* case: what is appended to the accumulator is the trimmed text after the
\* first occurrence of the wake phrase, and nothing at all when that text is
\* empty.
C13_WakePhraseStripped ==
  [][(ev'.op = "onresult" /\ listeningStateRef = "listening_for_reply"
        /\ ~isAISpeakingRef
        /\ ev'.final # lastFinalTranscript /\ ContainsWake(ev'.final))
       => /\ replyWindowTranscriptRef' =
               JoinedBySpace(replyWindowTranscriptRef, TextAfterWake(ev'.final))
          /\ TextAfterWake(ev'.final) = <<>>
               => replyWindowTranscriptRef' = replyWindowTranscriptRef]_vars

\* "x HEY buddy A " in a reply window left "A" in the accumulator
C13_Witness ==
  /\ ev.op = "onresult"
  /\ ev.final = TxtWakeCmd
  /\ listeningStateRef = "listening_for_reply"
  /\ ~isAISpeakingRef
  /\ replyWindowTranscriptRef = <<"A">>

\* the onWakeWordDetected invocations among the callbacks of a step
WakeCalls(cs) == SelectSeq(cs, LAMBDA c : c = CbWake)

\* C14: the handler reads listening_for_wakeword: the partial part of a batch
\* invokes onWakeWordDetected exactly when it holds the wake phrase, letter
\* case ignored, and so does the final part when it is processed (no duplicate
\* of the dedupe cache).
C14_CaseInsensitiveWake ==
  [][(ev'.op = "onresult" /\ listeningStateRef = "listening_for_wakeword")
       => WakeCalls(calls') =
            PartialWake(ev'.interim)
            \o (IF ev'.final # lastFinalTranscript /\ ContainsWake(ev'.final)
                THEN <<CbWake>> ELSE <<>>)]_vars

\* the partial "Hey Buddy " and the final "x HEY buddy A " both triggered
C14_Witness ==
  /\ ev.op = "onresult"
  /\ ev.interim = TxtWakeSp
  /\ ev.final = TxtWakeCmd
  /\ calls = <<CbWake, CbWake, CbResult(<<"A">>)>>

\* C15: startListening() called while the state it reads is not idle changes
\* nothing: no state, no timer, no service request and no permission
\* request; a startListening() whose permission request is denied changes
\* nothing either: the state stays what it was (idle) and start() is never
\* called for it.
C15_StartListeningGuards ==
  [][/\ (ev'.op = "startListening" /\ listeningStateRef # "idle")
          => /\ UNCHANGED <<hookVars, service, permPending>>
             /\ svcCalls' = <<>>
             /\ calls' = <<>>
     /\ ev'.op = "permissionDenied"
          => /\ UNCHANGED <<hookVars, service>>
             /\ svcCalls' = <<>>
             /\ calls' = <<>>]_vars

\* a denied permission request left the hook idle with the service not started
C15_Witness ==
  /\ ev.op = "permissionDenied"
  /\ ev.was = "idle"
  /\ listeningState = "idle"
  /\ listeningStateRef = "idle"
  /\ service = "inactive"
  /\ recognitionRef = "instance"

\* C16: in every reachable state at most one command timeout, at most one
\* reply-window timeout (the 2000 ms window timeout or the 1000 ms
\* no-new-speech timeout that replaces it) and at most one reply-silence
\* timeout is pending, and a pending timer is the one its ref holds: arming
\* cancels the timer that was pending, so no superseded timer is left to fire.
C16_OneTimerPerKind ==
  /\ pendingTimers["command"] <= 1
  /\ pendingTimers["window"] + pendingTimers["nospeech"] <= 1
  /\ pendingTimers["settle"] <= 1
  /\ pendingTimers["command"] > 0 => commandTimeoutRef = "command"
  /\ pendingTimers["window"] > 0 => replyWindowTimeoutRef = "window"
  /\ pendingTimers["nospeech"] > 0 => replyWindowTimeoutRef = "nospeech"
  /\ pendingTimers["settle"] > 0 => replyWindowSilenceTimeoutRef = "settle"

\* a second final hypothesis of a reply armed the no-new-speech timer again
\* while the one armed by the first was pending
C16_Witness ==
  /\ ev.op = "onresult"
  /\ ev.was = "listening_for_reply"
  /\ replyWindowTranscriptRef = <<"a", " ", "a">>
  /\ replyWindowTimeoutRef = "nospeech"
  /\ pendingTimers["nospeech"] = 1

\* C17: onend arrives while the handler reads listening_for_reply, speech was
\* detected and the trimmed accumulator is non-empty: onResult is invoked
\* exactly once with the trimmed accumulated text, no reply-window timer stays
\* pending, the accumulator, the speechDetected flag and the dedupe cache are
\* reset, the state becomes listening_for_wakeword and this handling of onend
\* does not call start().
C17_OnEndFallbackFlush ==
  [][(ev'.op = "onend" /\ listeningStateRef = "listening_for_reply"
        /\ replyWindowSpeechDetectedRef /\ trim(replyWindowTranscriptRef) # <<>>)
       => /\ calls' = <<CbResult(trim(replyWindowTranscriptRef))>>
          /\ replyWindowTimeoutRef' = "null"
          /\ pendingTimers'["window"] = 0
          /\ pendingTimers'["nospeech"] = 0
          /\ replyWindowTranscriptRef' = <<>>
          /\ replyWindowSpeechDetectedRef' = FALSE
          /\ lastFinalTranscript' = <<>>
          /\ listeningState' = "listening_for_wakeword"
          /\ svcCalls' = <<>>
          /\ service' = "inactive"]_vars

\* onend delivered the text "a" of an open reply window, left no reply-window
\* timer pending and did not restart the service
C17_Witness ==
  /\ ev.op = "onend"
  /\ ev.was = "listening_for_reply"
  /\ calls = <<CbResult(TxtA)>>
  /\ listeningState = "listening_for_wakeword"
  /\ replyWindowTimeoutRef = "null"
  /\ pendingTimers["nospeech"] = 0
  /\ service = "inactive"

\* C18: enableReplyWindow() with the service initialised, whatever the state
\* and whatever timers are pending: afterwards the accumulator is empty,
\* speechDetected is false, the dedupe cache is empty, the state is
\* listening_for_reply, no no-new-speech and no reply-silence timer is
\* pending and exactly one 2000 ms window timeout is; onResult is not invoked
\* for the text an unfinished window had accumulated.
C18_EnableReplyWindowResets ==
  [][(ev'.op = "enableReplyWindow" /\ recognitionRef = "instance")
       => /\ replyWindowTranscriptRef' = <<>>
          /\ replyWindowSpeechDetectedRef' = FALSE
          /\ lastFinalTranscript' = <<>>
          /\ listeningState' = "listening_for_reply"
          /\ replyWindowTimeoutRef' = "window"
          /\ replyWindowSilenceTimeoutRef' = "null"
          /\ pendingTimers'["window"] = 1
          /\ pendingTimers'["nospeech"] = 0
          /\ pendingTimers'["settle"] = 0
          /\ calls' = <<>>]_vars

\* enableReplyWindow() was called inside a reply window and opened a new one
C18_Witness ==
  /\ ev.op = "enableReplyWindow"
  /\ ev.was = "listening_for_reply"
  /\ listeningStateRef = "listening_for_reply"
  /\ listeningState = "listening_for_reply"
  /\ replyWindowTranscriptRef = <<>>
  /\ pendingTimers["window"] = 1
  /\ calls = <<>>

\* C19: immediately after a transition that starts a new turn the dedupe
\* cache (lastFinalTranscript) is empty, so that the first final hypothesis of
\* the new turn cannot be taken for a duplicate. Stated for the first of the
\* transitions the claim lists: startListening() called in idle, its
\* permission granted, entering listening_for_wakeword.
C19_DedupeClearedOnNewTurn ==
  [][(ev'.op = "permissionGranted" /\ mounted /\ listeningState = "idle"
        /\ listeningStateRef = "idle")
       => (listeningState' = "listening_for_wakeword" /\ lastFinalTranscript' = <<>>)]_vars

\* C20: when no recognition service is available (recognitionRef stays null),
\* isSupported is false and startListening(), stopListening() and
\* enableReplyWindow() do nothing: the state is idle in every reachable state,
\* no permission is requested, no timer is pending, the service is never
\* started and no callback is invoked.
C20_UnsupportedIsInert ==
  recognitionRef = "null"
    => /\ ~isSupported
       /\ listeningState = "idle"
       /\ listeningStateRef = "idle"
       /\ permPending = 0
       /\ \A k \in TimerKinds : pendingTimers[k] = 0
       /\ commandTimeoutRef = "null"
       /\ replyWindowTimeoutRef = "null"
       /\ replyWindowSilenceTimeoutRef = "null"
       /\ service = "inactive"
       /\ calls = <<>>
       /\ svcCalls = <<>>

\* enableReplyWindow() was called on a hook without a recognition service
C20_Witness ==
  /\ recognitionRef = "null"
  /\ mounted
  /\ ev.op = "enableReplyWindow"
  /\ listeningState = "idle"
  /\ replyWindowTimeoutRef = "null"

\* C21: handling the service's error signal changes nothing: the listening
\* state, the timers, the accumulator, speechDetected and the dedupe cache
\* are as before, no callback is invoked and neither start() nor stop() is
\* requested (the restart is left to onend).
C21_ErrorNotFatal ==
  [][ev'.op = "onerror"
       => /\ UNCHANGED <<hookVars, service, permPending>>
          /\ calls' = <<>>
          /\ svcCalls' = <<>>]_vars

\* an error was reported in a reply window holding text and a pending
\* no-new-speech timer, and all of it is still there
C21_Witness ==
  /\ ev.op = "onerror"
  /\ listeningState = "listening_for_reply"
  /\ listeningStateRef = "listening_for_reply"
  /\ replyWindowSpeechDetectedRef
  /\ replyWindowTranscriptRef = TxtA
  /\ pendingTimers["nospeech"] = 1

\* the handlers and timer callbacks of the hook
HandlerOps ==
  {"onresult", "onspeechend", "onend", "onerror", "commandTimeout",
   "replyWindowTimeout", "noSpeechTimeout", "settleTimeout"}

\* C22: once the hook is torn down no command, reply-window or reply-silence
\* timer is pending, and no handler of the service and no timer callback
\* runs any more: no step invokes a callback or changes the listening state.
C22_TeardownIsFinal ==
  [][/\ ~mounted' => \A k \in TimerKinds : pendingTimers'[k] = 0
     /\ ~mounted => /\ ev'.op \notin HandlerOps
                    /\ calls' = <<>>
                    /\ listeningState' = listeningState
                    /\ ~mounted']_vars

\* the hook was torn down in a reply window and the service ended afterwards
C22_Witness ==
  /\ ~mounted
  /\ ev.op = "endDetached"
  /\ listeningState = "listening_for_reply"
  /\ service = "inactive"
  /\ \A k \in TimerKinds : pendingTimers[k] = 0

\* C23: in every reachable state listeningState, and the copy of it the
\* handlers read, is one of idle, listening_for_wakeword,
\* listening_for_command and listening_for_reply.
C23_StateIsOneOfFour ==
  /\ listeningState \in ListeningState
  /\ listeningStateRef \in ListeningState

\* a wake phrase without command has moved the hook to listening_for_command
C23_Witness ==
  /\ ev.op = "onresult"
  /\ ev.was = "listening_for_wakeword"
  /\ listeningState = "listening_for_command"

\* C24: when the listening state is not idle the service is running or is
\* about to be started without a caller operation. Stated for the states
\* reached by handling the ended signal, where the restart is decided, with
\* the state copy the handler read up to date: the service has been started
\* again, or a granted permission request is about to start it (timer
\* callbacks never call start()).
C24_ServiceKeptRunning ==
  (mounted /\ ev.op = "onend" /\ ev.was = listeningStateRef
     /\ listeningState # "idle")
    => (service = "active" \/ permPending > 0)

\* the operations that read the listening state to decide what to do
StateReadingOps ==
  {"onresult", "onspeechend", "onend", "startListening", "stopListening"}

\* C25: every handler and public operation that reads the listening state
\* reads the state produced by the most recent transition.
C25_NoStaleStateRead ==
  [][ev'.op \in StateReadingOps => listeningStateRef = listeningState]_vars

\* C26: the command timeout changes the listening state only when the state
\* is listening_for_command.
C26_CommandTimeoutOnlyInCommand ==
  [][(ev'.op = "commandTimeout" /\ listeningState # "listening_for_command")
       => listeningState' = listeningState]_vars

\* C27: enableReplyWindow() called while the state is idle leaves the state
\* idle and arms no timer.
C27_EnableReplyWindowInIdle ==
  [][(ev'.op = "enableReplyWindow" /\ listeningState = "idle"
        /\ listeningStateRef = "idle")
       => (listeningState' = "idle" /\ pendingTimers' = pendingTimers)]_vars

\* C28: the handler reads listening_for_reply with speaking false and receives
\* a batch with text (a partial, or a final that is processed): afterwards
\* speechDetected is true and no 2000 ms window timeout is pending; so the
\* window timeout only ever fires while speechDetected is false.
C28_FirstSpeechCancelsWindow ==
  [][/\ (ev'.op = "onresult" /\ listeningStateRef = "listening_for_reply"
           /\ ~isAISpeakingRef
           /\ (ev'.interim # <<>>
                 \/ (ev'.final # <<>> /\ ev'.final # lastFinalTranscript)))
          => /\ replyWindowSpeechDetectedRef'
             /\ pendingTimers'["window"] = 0
             /\ replyWindowTimeoutRef' # "window"
     /\ ev'.op = "replyWindowTimeout" => ~replyWindowSpeechDetectedRef]_vars

\* the partial "a" was the first speech of a reply window: speechDetected is
\* set and the window timeout is gone
C28_Witness ==
  /\ ev.op = "onresult"
  /\ ev.interim = TxtA
  /\ ev.final = <<>>
  /\ ev.was = "listening_for_reply"
  /\ listeningStateRef = "listening_for_reply"
  /\ ~isAISpeakingRef
  /\ replyWindowSpeechDetectedRef
  /\ replyWindowTranscriptRef = <<>>
  /\ replyWindowTimeoutRef = "null"
  /\ pendingTimers["window"] = 0

\* C29: onspeechend read in listening_for_reply with speechDetected true arms
\* the 500 ms settle timer, replacing a pending one, and changes nothing else;
\* in any other state or with speechDetected false it changes nothing. A
\* result batch leaves a pending settle timer pending, so a final hypothesis
\* that arrives before it fires is in the accumulator when it does. When the
\* settle timer fires over non-empty accumulated text, onResult is invoked
\* once with the trimmed text, no reply-window timer stays pending, the state
\* becomes listening_for_wakeword and stop() is requested.
C29_SettleTimer ==
  [][/\ ev'.op = "onspeechend"
          => IF listeningStateRef = "listening_for_reply"
                  /\ replyWindowSpeechDetectedRef
             THEN /\ pendingTimers' = [pendingTimers EXCEPT !["settle"] = 1]
                  /\ replyWindowSilenceTimeoutRef' = "settle"
                  /\ UNCHANGED <<listeningState, replyVars, lastFinalTranscript,
                                 commandTimeoutRef, replyWindowTimeoutRef>>
                  /\ calls' = <<>>
             ELSE UNCHANGED hookVars /\ calls' = <<>>
     /\ ev'.op = "onresult" => pendingTimers'["settle"] = pendingTimers["settle"]
     /\ (ev'.op = "settleTimeout" /\ trim(replyWindowTranscriptRef) # <<>>)
          => /\ calls' = <<CbResult(trim(replyWindowTranscriptRef))>>
             /\ pendingTimers'["window"] = 0
             /\ pendingTimers'["nospeech"] = 0
             /\ pendingTimers'["settle"] = 0
             /\ listeningState' = "listening_for_wakeword"
             /\ svcCalls' = <<"stop">>
             /\ service' = SvcStop(service)]_vars

\* the settle timer fired over two final hypotheses and delivered both
C29_Witness ==
  /\ ev.op = "settleTimeout"
  /\ ev.was = "listening_for_reply"
  /\ calls = <<CbResult(<<"a", " ", "a">>)>>
  /\ listeningState = "listening_for_wakeword"
  /\ service = "stopping"
  /\ \A k \in TimerKinds : pendingTimers[k] = 0

\* C30: no step invokes onResult with an empty or whitespace-only text.
C30_ResultNeverBlank ==
  \A i \in 1..Len(calls) : calls[i][1] = "onResult" => trim(calls[i][2]) # <<>>

\* C31: the handler reads listening_for_wakeword and receives a batch whose
\* partial text holds the wake phrase and whose final part is empty or a
\* duplicate: onWakeWordDetected is invoked, and nothing else happens: the
\* listening state, the timers, the dedupe cache, every other ref and the
\* service are unchanged, and onCommandStart and onResult are not invoked.
C31_PartialWakeOnlyNotifies ==
  [][(ev'.op = "onresult" /\ listeningStateRef = "listening_for_wakeword"
        /\ ContainsWake(ev'.interim)
        /\ (ev'.final = <<>> \/ ev'.final = lastFinalTranscript))
       => /\ calls' = <<CbWake>>
          /\ UNCHANGED <<hookVars, service, permPending>>
          /\ svcCalls' = <<>>]_vars

\* the partial "Hey Buddy " was received in listening_for_wakeword
C31_Witness ==
  /\ ev.op = "onresult"
  /\ ev.interim = TxtWakeSp
  /\ ev.final = <<>>
  /\ ev.was = "listening_for_wakeword"
  /\ listeningStateRef = "listening_for_wakeword"
  /\ listeningState = "listening_for_wakeword"
  /\ calls = <<CbWake>>
  /\ service = "active"
  /\ \A k \in TimerKinds : pendingTimers[k] = 0

\* C32: the handler reads listening_for_wakeword and processes a final
\* hypothesis without the wake phrase: the final invokes no callback (only a
\* partial of the same batch can invoke onWakeWordDetected), the state and
\* the timers are unchanged and stop() is not requested.
C32_FinalWithoutWake ==
  [][(ev'.op = "onresult" /\ listeningStateRef = "listening_for_wakeword"
        /\ ev'.final # <<>> /\ ev'.final # lastFinalTranscript
        /\ ~ContainsWake(ev'.final))
       => /\ calls' = PartialWake(ev'.interim)
          /\ listeningState' = listeningState
          /\ UNCHANGED timerVars
          /\ svcCalls' = <<>>
          /\ service' = service]_vars

\* the final "a" was processed in listening_for_wakeword
C32_Witness ==
  /\ ev.op = "onresult"
  /\ ev.interim = <<>>
  /\ ev.final = TxtA
  /\ ev.was = "listening_for_wakeword"
  /\ listeningStateRef = "listening_for_wakeword"
  /\ listeningState = "listening_for_wakeword"
  /\ lastFinalTranscript = TxtA
  /\ calls = <<>>
  /\ service = "active"

\* C33: while a startListening() call awaits the microphone permission the
\* listening state stays idle and start() is not called: with a call
\* awaiting and the state idle, only the step that grants a permission
\* changes the state or calls start().
C33_IdleUntilPermission ==
  [][(permPending > 0 /\ mounted /\ listeningState = "idle"
        /\ listeningStateRef = "idle" /\ ev'.op # "permissionGranted")
       => (listeningState' = "idle" /\ svcCalls' # <<"start">>)]_vars

\* C34: two startListening() calls await the permission at the same time and
\* are granted one right after the other: start() is issued for at most one
\* of them.
C34_StartIssuedOnce ==
  [][(ev.op = "permissionGranted" /\ svcCalls = <<"start">>
        /\ ev'.op = "permissionGranted")
       => svcCalls' = <<>>]_vars

\* C35: outside listening_for_reply the reply accumulator is empty and
\* speechDetected is false. Stated for the steps that end a reply window
\* (stopListening(), a timeout, a flush), taken with the state copy the
\* handlers read up to date: they leave no reply text and no speechDetected
\* flag behind.
C35_NoResidualReplyText ==
  [][(mounted /\ listeningState = "listening_for_reply"
        /\ listeningStateRef = "listening_for_reply"
        /\ listeningState' # "listening_for_reply")
       => (replyWindowTranscriptRef' = <<>> /\ ~replyWindowSpeechDetectedRef')]_vars

HasCall(cs, name) == \E i \in DOMAIN cs : cs[i][1] = name

\* C36: onCommandStart is notified only while handling a final hypothesis read
\* in listening_for_wakeword, right after onWakeWordDetected for that
\* hypothesis, together with the state becoming listening_for_command; and a
\* command window delivers one onResult only: a result batch that follows a
\* command-window result, with no onCommandStart in between, delivers none.
C36_CommandStartOncePerResult ==
  [][/\ HasCall(calls', "onCommandStart")
          => /\ ev'.op = "onresult"
             /\ listeningStateRef = "listening_for_wakeword"
             /\ FinalProcessed(ev'.final)
             /\ calls' = PartialWake(ev'.interim) \o <<CbWake, CbCommandStart>>
             /\ listeningState' = "listening_for_command"
     /\ (ev.op = "onresult" /\ listeningStateRef = "listening_for_command"
           /\ HasCall(calls, "onResult") /\ ev'.op = "onresult")
          => ~HasCall(calls', "onResult")]_vars

\* C37: isLoading stays true while a request is still in flight: when two
\* requests overlap and isLoading is true, the completion of one of them
\* neither sets isLoading to false nor clears the abort controller while the
\* other is still in flight.
C37_LoadingWhileInFlight ==
  [][(\E r \in InFlight :
        /\ reqState'[r] = "finished"
        /\ InFlight \ {r} # {}
        /\ isLoading)
       => (isLoading' /\ abortControllerRef' = abortControllerRef)]_<<vars, hhVars>>

\* C38: after cancelRequest() no further chunk text is appended to the
\* assistant message of a request that was in flight when the cancel was
\* issued, also when another request is started before its next chunk.
C38_NoChunkAfterCancel ==
  [][\A r \in cancelledInFlight : messages'[r] <= messages[r]]_<<vars, hhVars>>

====
